---- MODULE Spec2Model ----
(***************************************************************************)
(* A model of homebridge-vieramatic's device reconciliation core:          *)
(*   src/src/storage.ts   the accessory cache (Storage)                    *)
(*   src/src/platform.ts  the discovery driver and the per-device setup    *)
(*                        pipeline (VieramaticPlatform)                    *)
(*                                                                         *)
(* JavaScript values are modelled as follows.                              *)
(*   - an optional value (undefined / null or a value) is a sequence of    *)
(*     length 0 or 1: None, Some(x);                                       *)
(*   - an object whose reference is shared (the specs object stored in a   *)
(*     cache entry) is referred to by the key of its entry, and read and   *)
(*     written through the mapping that holds it;                          *)
(*   - a string that the code parses (an IPv4 literal, a MAC address) is a *)
(*     sequence of groups of character codes.                              *)
(***************************************************************************)
EXTENDS Integers, Sequences, FiniteSets, TLC

None == <<>>
Some(x) == <<x>>

(***************************************************************************)
(* Bounds of the model.                                                    *)
(***************************************************************************)
\* devices declared in config.tvs in the discovery specification
NumDevices == 2
\* accessories the host restores through configureAccessory
MaxRestored == 2

(***************************************************************************)
(* Addresses.  A character is a number: 0..9 a decimal digit, 10..15 the   *)
(* letters a..f, 16 any other character.  A dotted or colon-separated      *)
(* string is the sequence of its groups.                                   *)
(***************************************************************************)
A5 == << <<1, 0>>, <<0>>, <<0>>, <<5>> >>
A6 == << <<1, 0>>, <<0>>, <<0>>, <<6>> >>
\* "10.0.0.256", "10.0.0" and "10.0.0.05"
BadOctet == << <<1, 0>>, <<0>>, <<0>>, <<2, 5, 6>> >>
BadCount == << <<1, 0>>, <<0>>, <<0>> >>
BadLeadingZero == << <<1, 0>>, <<0>>, <<0>>, <<0, 5>> >>

ValidAddrs == {A5, A6}
Addrs == ValidAddrs \cup {BadOctet, BadCount, BadLeadingZero}

\* one segment of node's IPv4 pattern: 25[0-5] | 2[0-4]d | 1dd | [1-9]d | d
v4Seg(o) ==
    /\ \A i \in 1..Len(o) : o[i] \in 0..9
    /\ \/ Len(o) = 1
       \/ Len(o) = 2 /\ o[1] \in 1..9
       \/ Len(o) = 3 /\ o[1] = 1
       \/ Len(o) = 3 /\ o[1] = 2 /\ o[2] \in 0..4
       \/ Len(o) = 3 /\ o[1] = 2 /\ o[2] = 5 /\ o[3] \in 0..5

isIPv4(a) == Len(a) = 4 /\ \A i \in 1..4 : v4Seg(a[i])

MacGood == << <<0, 0>>, <<1, 10>>, <<2, 11>>, <<3, 12>>, <<4, 13>>, <<5, 15>> >>
\* five groups only; a group with a character that is no hex digit
MacShort == << <<0, 0>>, <<1, 10>>, <<2, 11>>, <<3, 12>>, <<4, 13>> >>
MacNotHex == << <<0, 0>>, <<1, 10>>, <<2, 11>>, <<3, 12>>, <<4, 13>>, <<5, 16>> >>

Macs == {MacGood, MacShort, MacNotHex}

isValidMACAddress(m) ==
    /\ Len(m) = 6
    /\ \A i \in 1..Len(m) : Len(m[i]) = 2 /\ \A j \in 1..2 : m[i][j] \in 0..15

(***************************************************************************)
(* Specs (VieraSpecs) and cache entries (OnDisk).                          *)
(***************************************************************************)
Ids == {"S1", "S2"}

SpecFields == {"serialNumber", "friendlyName", "requiresEncryption"}

EmptySpecs == [serialNumber |-> None, friendlyName |-> None, requiresEncryption |-> None]

MkSpecs(serial, name, enc) ==
    [serialNumber |-> Some(serial), friendlyName |-> Some(name),
     requiresEncryption |-> Some(enc)]

\* helpers.isEmpty on a specs object: it has no own property
isEmptySpecs(s) == \A f \in SpecFields : s[f] = None

\* JavaScript truthiness of specs.requiresEncryption
Truthy(b) == b = Some(TRUE)

EmptyEntry == [data |-> None]

MkEntry(ip, specs) == [data |-> Some([ipAddress |-> ip, specs |-> specs])]

\* specs a television reports about itself, or the empty object
LiveSpecs ==
    {EmptySpecs} \cup {MkSpecs(s, "Viera", e) : s \in Ids, e \in BOOLEAN}

\* specs a cache entry stored under serial number k can hold
CachedSpecs(k) == {MkSpecs(k, "Cached", e) : e \in BOOLEAN}

(***************************************************************************)
(* The JSON document.  An object is a function from the names of its       *)
(* defined properties to their values: JSON.stringify leaves out a         *)
(* property whose value is undefined, JSON.parse yields no property for a  *)
(* name the text lacks.                                                    *)
(***************************************************************************)
SpecsToJson(s) ==
    [f \in {g \in SpecFields : s[g] # None} |-> s[f][1]]

SpecsFromJson(j) ==
    [f \in SpecFields |-> IF f \in DOMAIN j THEN Some(j[f]) ELSE None]

EntryToJson(e) ==
    IF e.data = None
    THEN <<>>
    ELSE [data |-> [ipAddress |-> e.data[1].ipAddress,
                    specs |-> SpecsToJson(e.data[1].specs)]]

EntryFromJson(j) ==
    IF "data" \in DOMAIN j
    THEN MkEntry(j.data.ipAddress, SpecsFromJson(j.data.specs))
    ELSE EmptyEntry

\* a variant that leaves out the entries that have no data
RECURSIVE stringifyWithData(_)
stringifyWithData(m) ==
    IF m = <<>> THEN <<>>
    ELSE IF Head(m).entry.data = None THEN stringifyWithData(Tail(m))
    ELSE <<[id |-> Head(m).id, json |-> EntryToJson(Head(m).entry)]>>
         \o stringifyWithData(Tail(m))

\* the mapping keeps its keys in insertion order, and so does the text
stringify(m) == [i \in 1..Len(m) |-> [id |-> m[i].id, json |-> EntryToJson(m[i].entry)]]

parse(doc) == [i \in 1..Len(doc) |-> [id |-> doc[i].id, entry |-> EntryFromJson(doc[i].json)]]

NoFile == [state |-> "absent", doc |-> <<>>]
Corrupt == [state |-> "corrupt", doc |-> <<>>]
JsonFile(doc) == [state |-> "json", doc |-> doc]

\* what a write of the text doc leaves when the process ends in the middle of
\* it: the file truncated, then a part of the text, its end missing
Torn(doc) == {[state |-> "corrupt", doc |-> SubSeq(doc, 1, n)] : n \in 0..Len(doc)}

\* fs-extra readJsonSync(path, {throws: false}): null unless the file parses
readJsonSync(file) == IF file.state = "json" THEN Some(parse(file.doc)) ELSE None

\* fs-extra writeJsonSync(path, obj)
writeJsonSync(m) == JsonFile(stringify(m))

(***************************************************************************)
(* The in-memory mapping Storage.accessories: a sequence of                *)
(* [id, entry] in insertion order, no id twice.                            *)
(***************************************************************************)
Keys(m) == {m[i].id : i \in 1..Len(m)}

HasKey(m, k) == k \in Keys(m)

IndexOf(m, k) == CHOOSE i \in 1..Len(m) : m[i].id = k

EntryOf(m, k) == m[IndexOf(m, k)].entry

isEmptyMap(m) == Len(m) = 0

\* the specs object held by the entry under key k (entry.data.specs)
SpecsOf(m, k) == EntryOf(m, k).data[1].specs

\* an assignment to a property of that object, seen through the mapping
WriteSpecs(m, k, s) ==
    [m EXCEPT ![IndexOf(m, k)].entry.data = Some([@[1] EXCEPT !.specs = s])]

(***************************************************************************)
(* Device declarations (UserConfig), messages and outcomes.                *)
(***************************************************************************)
MkDevice(ip, mac, appId, encKey, name, noApps) ==
    [ipAddress |-> ip, mac |-> mac, appId |-> appId, encKey |-> encKey,
     friendlyName |-> name, disabledAppSupport |-> noApps]

\* helpers.printf: the format, and what its %s take from the arguments:
\* the address and a model or friendly name
printf(text, ip, name) == [text |-> text, ip |-> ip, name |-> name]

NoMsg == printf("", None, None)

NoAccessory == [displayName |-> None, serialNumber |-> None]

NoHandle == [accessory |-> NoAccessory, apps |-> <<>>]

NoOutcome == [kind |-> "none", msg |-> NoMsg, handle |-> NoHandle]

\* { error: Error(msg) }
Failure(msg) == [kind |-> "error", msg |-> msg, handle |-> NoHandle]

\* { value: ... }
Success(handle) == [kind |-> "value", msg |-> NoMsg, handle |-> handle]

\* the promise of deviceSetup rejected by an exception (a TypeError)
Thrown == [kind |-> "thrown", msg |-> NoMsg, handle |-> NoHandle]

\* helpers.Abnormal
Abnormal(o) == o.kind = "error"

AppLists == {<<>>, <<"Netflix", "YouTube">>}

VARIABLES
    disk,         \* the backing document vieramatic.json
    accessories,  \* Storage.accessories
    lastCall,     \* the last call on the store and what it returned
    saved,        \* the mapping as it was when save last wrote the document
    tvs,          \* config.tvs, the declared devices
    restored,     \* VieramaticPlatform.accessories, restored by the host
    host,         \* the calls made on the host api, in order
    phase,        \* "launching" until didFinishLaunching, then "discovered";
                  \* "crashed" when the process has ended in a save
    pc,           \* per device: where its pipeline stands
    calls,        \* per device: the device operations invoked, in order
    reachable,    \* per device: what livenessProbe returned
    cachedRef,    \* per device: the entry whose specs knownWorking returned
    live,         \* per device: what getSpecs returned
    tvRef,        \* per device: the entry whose specs object tv.specs is
    tvOwn,        \* per device: tv.specs when it is an object of its own
    session,      \* per device: what requestSessionId returned
    accessory,    \* per device: the platformAccessory built at line 175
    turnedOn,     \* per device: what isTurnedOn returned
    appsCmd,      \* per device: what getApps returned
    outcome       \* per device: what deviceSetup returned

storeVars == <<disk, accessories, lastCall, saved>>
pipeVars == <<pc, calls, reachable, cachedRef, live, tvRef, tvOwn, session, accessory,
              turnedOn, appsCmd, outcome>>
hostVars == <<tvs, restored, host, phase>>
vars == <<disk, accessories, lastCall, saved, tvs, restored, host, phase, pc, calls,
          reachable, cachedRef, live, tvRef, tvOwn, session, accessory, turnedOn, appsCmd,
          outcome>>

Devices == DOMAIN tvs

(***************************************************************************)
(* Storage (src/src/storage.ts).                                           *)
(***************************************************************************)
NoCall == [op |-> "none", id |-> "", result |-> None]

\* a variant that keeps the entries a corrupt document still holds whole
LoadSalvage(file) == IF file.state = "absent" THEN <<>> ELSE parse(file.doc)

\* constructor: accessories = readJsonSync(filePath, {throws: false}) ?? {}
Load(file) == IF readJsonSync(file) = None THEN <<>> ELSE readJsonSync(file)[1]

\* get(id): the mapping after the call; the call returns EntryOf(GetMap, id)
GetMap(m, id) ==
    IF HasKey(m, id) THEN m ELSE Append(m, [id |-> id, entry |-> EmptyEntry])

\* a variant of get that writes the document when it creates an entry
GetWriteThrough(id) ==
    /\ accessories' = GetMap(accessories, id)
    /\ lastCall' = [op |-> "get", id |-> id,
                    result |-> Some(EntryOf(GetMap(accessories, id), id))]
    /\ disk' = IF HasKey(accessories, id) THEN disk ELSE writeJsonSync(accessories')
    /\ UNCHANGED saved

Get(id) ==
    /\ accessories' = GetMap(accessories, id)
    /\ lastCall' = [op |-> "get", id |-> id,
                    result |-> Some(EntryOf(GetMap(accessories, id), id))]
    /\ UNCHANGED <<disk, saved>>

\* save(): writeJsonSync(filePath, accessories)
SaveFile(m) == writeJsonSync(m)

Save ==
    /\ disk' = SaveFile(accessories)
    /\ lastCall' = [op |-> "save", id |-> "", result |-> None]
    /\ saved' = Some(accessories)
    /\ UNCHANGED accessories

(***************************************************************************)
(* VieramaticPlatform (src/src/platform.ts).                               *)
(***************************************************************************)
\* configureAccessory(accessory): the host restores its n-th accessory
ConfigureAccessory ==
    /\ phase = "launching"
    /\ Len(restored) < MaxRestored
    /\ restored' = Append(restored, Len(restored) + 1)
    /\ UNCHANGED <<tvs, host, phase>>
    /\ UNCHANGED storeVars
    /\ UNCHANGED pipeVars

\* a variant that does not look at the MAC address
deviceSetupPreFlightNoMac(device) ==
    IF ~isIPv4(device.ipAddress)
    THEN Failure(printf("not a valid ip address", Some(device.ipAddress), None))
    ELSE [kind |-> "value", msg |-> NoMsg, handle |-> NoHandle]

deviceSetupPreFlight(device) ==
    IF ~isIPv4(device.ipAddress)
    THEN Failure(printf("not a valid ip address", Some(device.ipAddress), None))
    ELSE IF device.mac # None /\ ~isValidMACAddress(device.mac[1])
    THEN Failure(printf("invalid MAC address", Some(device.ipAddress), None))
    ELSE [kind |-> "value", msg |-> NoMsg, handle |-> NoHandle]

\* knownWorking(ip): the entry whose specs object it returns, None for a new
\* empty object; threw when it reads data.ipAddress of an entry without data
knownWorking(m, ip) ==
    LET stops == {i \in 1..Len(m) :
                    \/ m[i].entry.data = None
                    \/ m[i].entry.data[1].ipAddress = ip}
        first == CHOOSE i \in stops : \A j \in stops : i <= j
    IN  IF isEmptyMap(m) \/ stops = {}
        THEN [threw |-> FALSE, ref |-> None]
        ELSE IF m[first].entry.data = None
        THEN [threw |-> TRUE, ref |-> None]
        ELSE [threw |-> FALSE, ref |-> Some(m[first].id)]

\* deviceSetup up to its first await (lines 101-107)
SetupStart(device) ==
    IF Abnormal(deviceSetupPreFlight(device))
    THEN [pc |-> "returned", calls |-> <<>>, outcome |-> deviceSetupPreFlight(device)]
    ELSE [pc |-> "livenessProbe", calls |-> <<"livenessProbe">>, outcome |-> NoOutcome]

\* a variant that unregisters only the accessory restored last
UnregisterLast(acc) ==
    IF acc = <<>> THEN <<>> ELSE <<[op |-> "unregister", what |-> acc[Len(acc)]]>>

\* lines 48-50: one call of unregisterPlatformAccessories per restored
\* accessory, in the order of the list
Unregister(acc) == [i \in 1..Len(acc) |-> [op |-> "unregister", what |-> acc[i]]]

\* discoverDevices(): unregisters what the host restored, then starts one
\* callback per declared device; each runs up to its first await
DiscoverDevices ==
    /\ phase = "launching"
    /\ phase' = "discovered"
    /\ host' = host \o Unregister(restored)
    /\ pc' = [d \in Devices |-> SetupStart(tvs[d]).pc]
    /\ calls' = [d \in Devices |-> SetupStart(tvs[d]).calls]
    /\ outcome' = [d \in Devices |-> SetupStart(tvs[d]).outcome]
    /\ UNCHANGED <<tvs, restored>>
    /\ UNCHANGED storeVars
    /\ UNCHANGED <<reachable, cachedRef, live, tvRef, tvOwn, session, accessory,
                   turnedOn, appsCmd>>

\* the return of deviceSetup with outcome o
Return(d, o) ==
    /\ pc' = [pc EXCEPT ![d] = "returned"]
    /\ outcome' = [outcome EXCEPT ![d] = o]
    /\ UNCHANGED calls

\* the calls of device operations ops, the last of them awaited
Await(d, ops) ==
    /\ pc' = [pc EXCEPT ![d] = ops[Len(ops)]]
    /\ calls' = [calls EXCEPT ![d] = @ \o ops]
    /\ UNCHANGED outcome

\* line 109: !reachable && isEmpty(cached)
NotUsable(r, cached) == ~r /\ isEmptySpecs(cached)

\* livenessProbe returned r: knownWorking, the reachability check and the
\* call of getSpecs (lines 107-128)
ProbeReturns(d, r) ==
    /\ pc[d] = "livenessProbe"
    /\ reachable' = [reachable EXCEPT ![d] = Some(r)]
    /\ LET ip == tvs[d].ipAddress
           kw == knownWorking(accessories, ip)
           cached == IF kw.ref = None THEN EmptySpecs ELSE SpecsOf(accessories, kw.ref[1])
       IN  /\ cachedRef' = [cachedRef EXCEPT ![d] = kw.ref]
           /\ IF kw.threw
              THEN Return(d, Thrown)
              ELSE IF NotUsable(r, cached)
              THEN Return(d, Failure(printf("not reachable", Some(ip), None)))
              ELSE Await(d, <<"getSpecs">>)
    /\ UNCHANGED <<live, tvRef, tvOwn, session, accessory, turnedOn, appsCmd>>
    /\ UNCHANGED storeVars
    /\ UNCHANGED hostVars

\* tv.specs of device d: the object of a cache entry, or its own
TvSpecs(d) == IF tvRef[d] # None THEN SpecsOf(accessories, tvRef[d][1]) ELSE tvOwn[d]

\* new VieramaticPlatformAccessory(this, accessory, device, apps)
newVieramaticPlatformAccessory(acc, apps) == [accessory |-> acc, apps |-> apps]

\* accessories[serialNumber] === undefined
NoEntryFor(m, serial) == serial = None \/ ~HasKey(m, serial[1])

\* a variant that takes every setup for the first one
FirstTimeAlways(m, serial) == TRUE

\* lines 183-186: isEmpty(accessories) || accessories[serialNumber] === undefined
FirstTime(m, serial) == isEmptyMap(m) \/ NoEntryFor(m, serial)

\* new this.api.platformAccessory(displayName, UUID, category), lines 175-179:
\* whether the host builds the accessory.  The constructor belongs to the
\* host; given an undefined name or UUID it may build the accessory or
\* throw, and both are taken
platformAccessory(displayName, uuid) ==
    IF displayName = None \/ uuid = None THEN {TRUE, FALSE} ELSE {TRUE}

\* lines 173-188 and 209: the friendly-name override, written into the
\* object tv.specs refers to (ref: a cache entry's, else own), the
\* accessory, and the first-time check
AfterGate(d, ref, own) ==
    LET cur == IF ref # None THEN SpecsOf(accessories, ref[1]) ELSE own
        name == IF tvs[d].friendlyName # None THEN tvs[d].friendlyName ELSE cur.friendlyName
        specs == [cur EXCEPT !.friendlyName = name]
        acc == [displayName |-> specs.friendlyName, serialNumber |-> specs.serialNumber]
    IN  /\ accessories' = IF ref # None THEN WriteSpecs(accessories, ref[1], specs)
                                        ELSE accessories
        /\ tvRef' = [tvRef EXCEPT ![d] = ref]
        /\ tvOwn' = [tvOwn EXCEPT ![d] = IF ref # None THEN EmptySpecs ELSE specs]
        /\ \E built \in platformAccessory(specs.friendlyName, specs.serialNumber) :
              IF ~built
              THEN Return(d, Thrown) /\ UNCHANGED accessory
              ELSE /\ accessory' = [accessory EXCEPT ![d] = acc]
                   /\ IF FirstTime(accessories, specs.serialNumber)
                      THEN Await(d, <<"isTurnedOn">>)
                      ELSE Return(d, Success(newVieramaticPlatformAccessory(acc, <<>>)))

\* a variant without the check of the cached requiresEncryption
NoOfflineInitOmitted(sp, cached) == FALSE

\* lines 130 and 136: isEmpty(specs) and cached?.requiresEncryption
NoOfflineInit(sp, cached) == isEmptySpecs(sp) /\ Truthy(cached.requiresEncryption)

\* variants that prefer the cached specs whenever there are any, and that
\* never fall back to them
UseCachedIfAny(sp, cached) == isEmptySpecs(sp) \/ ~isEmptySpecs(cached)

UseCachedNever(sp, cached) == FALSE

\* line 145: tv.specs = isEmpty(specs) ? cached : specs
UseCached(sp, cached) == isEmptySpecs(sp)

\* variants that take one credential for both
CredentialsSuppliedEither(device) == device.appId # None \/ device.encKey # None

CredentialsSuppliedAppId(device) == device.appId # None

\* line 147: device.appId != null && device.encKey != null
CredentialsSupplied(device) == device.appId # None /\ device.encKey # None

\* getSpecs returned sp: the fallback to the cached specs and the
\* encryption gate up to requestSessionId (lines 128-161), or on to line 173
GetSpecsReturns(d, sp) ==
    /\ pc[d] = "getSpecs"
    /\ live' = [live EXCEPT ![d] = Some(sp)]
    /\ LET ip == tvs[d].ipAddress
           cached == IF cachedRef[d] = None THEN EmptySpecs
                                            ELSE SpecsOf(accessories, cachedRef[d][1])
           ref == IF UseCached(sp, cached) THEN cachedRef[d] ELSE None
           own == IF UseCached(sp, cached) THEN EmptySpecs ELSE sp
           specs == IF ref # None THEN cached ELSE own
       IN  IF NoOfflineInit(sp, cached)
           THEN /\ Return(d, Failure(printf("no offline initialization", Some(ip), None)))
                /\ UNCHANGED <<accessories, tvRef, tvOwn, accessory>>
           ELSE IF Truthy(specs.requiresEncryption)
           THEN /\ tvRef' = [tvRef EXCEPT ![d] = ref]
                /\ tvOwn' = [tvOwn EXCEPT ![d] = own]
                /\ IF ~CredentialsSupplied(tvs[d])
                   THEN Return(d, Failure(printf("no valid credentials", Some(ip), None)))
                   ELSE Await(d, <<"deriveSessionKey", "requestSessionId">>)
                /\ UNCHANGED <<accessories, accessory>>
           ELSE AfterGate(d, ref, own)
    /\ UNCHANGED <<reachable, cachedRef, session, turnedOn, appsCmd>>
    /\ UNCHANGED <<disk, lastCall, saved>>
    /\ UNCHANGED hostVars

\* requestSessionId returned (lines 161-172), then on to line 173
RequestSessionIdReturns(d, ok) ==
    /\ pc[d] = "requestSessionId"
    /\ session' = [session EXCEPT ![d] = Some(ok)]
    /\ IF ~ok
       THEN /\ Return(d, Failure(printf("no working credentials",
                                        Some(tvs[d].ipAddress), None)))
            /\ UNCHANGED <<accessories, tvRef, tvOwn, accessory>>
       ELSE AfterGate(d, tvRef[d], tvOwn[d])
    /\ UNCHANGED <<reachable, cachedRef, live, turnedOn, appsCmd>>
    /\ UNCHANGED <<disk, lastCall, saved>>
    /\ UNCHANGED hostVars

\* a variant that fetches the application list whatever the declaration says
AppSupportAlways(device) == TRUE

\* line 197: device.disabledAppSupport == null || !device.disabledAppSupport
AppSupport(device) ==
    device.disabledAppSupport = None \/ device.disabledAppSupport = Some(FALSE)

\* isTurnedOn returned (lines 188-198 and 209)
IsTurnedOnReturns(d, status) ==
    /\ pc[d] = "isTurnedOn"
    /\ turnedOn' = [turnedOn EXCEPT ![d] = Some(status)]
    /\ IF ~status
       THEN Return(d, Failure(printf("not powered on", None, TvSpecs(d).friendlyName)))
       ELSE IF AppSupport(tvs[d])
       THEN Await(d, <<"getApps">>)
       ELSE Return(d, Success(newVieramaticPlatformAccessory(accessory[d], <<>>)))
    /\ UNCHANGED <<reachable, cachedRef, live, tvRef, tvOwn, session, accessory, appsCmd>>
    /\ UNCHANGED storeVars
    /\ UNCHANGED hostVars

\* getApps returned cmd, an outcome carrying the list (lines 198-211)
GetAppsReturns(d, cmd) ==
    /\ pc[d] = "getApps"
    /\ appsCmd' = [appsCmd EXCEPT ![d] = Some(cmd)]
    /\ IF ~cmd.ok
       THEN Return(d, Failure(printf("unable to fetch Apps list", None, None)))
       ELSE Return(d, Success(newVieramaticPlatformAccessory(accessory[d], cmd.value)))
    /\ UNCHANGED <<reachable, cachedRef, live, tvRef, tvOwn, session, accessory, turnedOn>>
    /\ UNCHANGED storeVars
    /\ UNCHANGED hostVars

AppsOutcomes == {[ok |-> FALSE, value |-> <<>>]} \cup {[ok |-> TRUE, value |-> l] : l \in AppLists}

\* a variant that handles the devices one after the other, in the order of
\* the list: a callback resumes when the ones before it have ended
ResumeInOrder(d) ==
    /\ pc[d] = "returned"
    /\ \A e \in Devices : e < d => pc[e] \in {"published", "logged", "rejected"}
    /\ IF outcome[d].kind = "thrown"
       THEN pc' = [pc EXCEPT ![d] = "rejected"] /\ UNCHANGED host
       ELSE IF Abnormal(outcome[d])
       THEN pc' = [pc EXCEPT ![d] = "logged"] /\ UNCHANGED host
       ELSE /\ pc' = [pc EXCEPT ![d] = "published"]
            /\ host' = Append(host, [op |-> "publish", what |-> d])
    /\ UNCHANGED <<calls, reachable, cachedRef, live, tvRef, tvOwn, session, accessory,
                   turnedOn, appsCmd, outcome>>
    /\ UNCHANGED storeVars
    /\ UNCHANGED <<tvs, restored, phase>>

\* a variant that publishes whatever deviceSetup returned
ResumePublishAll(d) ==
    /\ pc[d] = "returned"
    /\ IF outcome[d].kind = "thrown"
       THEN pc' = [pc EXCEPT ![d] = "rejected"] /\ UNCHANGED host
       ELSE /\ pc' = [pc EXCEPT ![d] = "published"]
            /\ host' = Append(host, [op |-> "publish", what |-> d])
    /\ UNCHANGED <<calls, reachable, cachedRef, live, tvRef, tvOwn, session, accessory,
                   turnedOn, appsCmd, outcome>>
    /\ UNCHANGED storeVars
    /\ UNCHANGED <<tvs, restored, phase>>

\* the forEach callback after `await this.deviceSetup(device)` (lines 56-64)
Resume(d) ==
    /\ pc[d] = "returned"
    /\ IF outcome[d].kind = "thrown"
       THEN pc' = [pc EXCEPT ![d] = "rejected"] /\ UNCHANGED host
       ELSE IF Abnormal(outcome[d])
       THEN pc' = [pc EXCEPT ![d] = "logged"] /\ UNCHANGED host
       ELSE /\ pc' = [pc EXCEPT ![d] = "published"]
            /\ host' = Append(host, [op |-> "publish", what |-> d])
    /\ UNCHANGED <<calls, reachable, cachedRef, live, tvRef, tvOwn, session, accessory,
                   turnedOn, appsCmd, outcome>>
    /\ UNCHANGED storeVars
    /\ UNCHANGED <<tvs, restored, phase>>

NetworkCalls == {"livenessProbe", "getSpecs", "requestSessionId", "isTurnedOn", "getApps"}

\* the awaited network call of device d never returns
Hang(d) ==
    /\ pc[d] \in NetworkCalls
    /\ pc' = [pc EXCEPT ![d] = "hung"]
    /\ UNCHANGED <<calls, reachable, cachedRef, live, tvRef, tvOwn, session, accessory,
                   turnedOn, appsCmd, outcome>>
    /\ UNCHANGED storeVars
    /\ UNCHANGED hostVars

\* one step of the pipeline of device d
Step(d) ==
    \/ \E r \in BOOLEAN : ProbeReturns(d, r)
    \/ \E sp \in LiveSpecs : GetSpecsReturns(d, sp)
    \/ \E ok \in BOOLEAN : RequestSessionIdReturns(d, ok)
    \/ \E status \in BOOLEAN : IsTurnedOnReturns(d, status)
    \/ \E cmd \in AppsOutcomes : GetAppsReturns(d, cmd)
    \/ Resume(d)

\* calls on the store made while the platform runs
StoreGet ==
    /\ phase # "crashed"
    /\ \E id \in Ids : Get(id)
    /\ UNCHANGED hostVars
    /\ UNCHANGED pipeVars

StoreSave ==
    /\ phase # "crashed"
    /\ Save
    /\ UNCHANGED hostVars
    /\ UNCHANGED pipeVars

\* the process ends in the middle of save(): writeJsonSync has truncated the
\* document and written a part of the text
CrashInSave ==
    /\ phase # "crashed"
    /\ disk' \in Torn(stringify(accessories))
    /\ lastCall' = [op |-> "save", id |-> "", result |-> None]
    /\ saved' = None
    /\ phase' = "crashed"
    /\ UNCHANGED accessories
    /\ UNCHANGED <<tvs, restored, host>>
    /\ UNCHANGED pipeVars

\* the owner of an entry writes its data snapshot: entry.data = {ipAddress, specs}
SetData(id, ip, specs) ==
    /\ phase # "crashed"
    /\ HasKey(accessories, id)
    /\ accessories' = [accessories EXCEPT ![IndexOf(accessories, id)].entry = MkEntry(ip, specs)]
    /\ lastCall' = [op |-> "set", id |-> id, result |-> None]
    /\ UNCHANGED <<disk, saved>>
    /\ UNCHANGED hostVars
    /\ UNCHANGED pipeVars

\* a new process: new Storage(api) reads the document again
Construct ==
    /\ accessories' = Load(disk)
    /\ lastCall' = [op |-> "construct", id |-> "", result |-> None]
    /\ phase' = "launching"
    /\ UNCHANGED <<disk, saved>>
    /\ UNCHANGED <<tvs, restored, host>>
    /\ UNCHANGED pipeVars

(***************************************************************************)
(* Initial states: the document left by earlier runs, the declarations.    *)
(***************************************************************************)
Entries(k) == {EmptyEntry} \cup {MkEntry(ip, sp) : ip \in ValidAddrs, sp \in CachedSpecs(k)}

KeyedEntries == UNION {{[id |-> k, entry |-> e] : e \in Entries(k)} : k \in Ids}

\* every mapping over Ids, in every insertion order
Mappings ==
    UNION {{m \in [1..n -> KeyedEntries] : \A i, j \in 1..n : m[i].id = m[j].id => i = j}
           : n \in 0..Cardinality(Ids)}

Files == {NoFile, Corrupt} \cup {SaveFile(m) : m \in Mappings}

Opt(S) == {None} \cup {Some(x) : x \in S}

\* one valid address and every malformed one
DeclAddrs == {A5, BadOctet, BadCount, BadLeadingZero}

Decls ==
    {MkDevice(ip, mac, appId, encKey, name, noApps) :
        ip \in DeclAddrs, mac \in Opt(Macs), appId \in Opt({"app"}), encKey \in Opt({"key"}),
        name \in Opt({"Living"}), noApps \in Opt(BOOLEAN)}

InitWith(files, decls, n) ==
    /\ disk \in files
    /\ accessories = Load(disk)
    /\ lastCall = NoCall
    /\ saved = None
    /\ tvs \in [1..n -> decls]
    /\ restored = <<>>
    /\ host = <<>>
    /\ phase = "launching"
    /\ pc = [d \in 1..n |-> "idle"]
    /\ calls = [d \in 1..n |-> <<>>]
    /\ reachable = [d \in 1..n |-> None]
    /\ cachedRef = [d \in 1..n |-> None]
    /\ live = [d \in 1..n |-> None]
    /\ tvRef = [d \in 1..n |-> None]
    /\ tvOwn = [d \in 1..n |-> EmptySpecs]
    /\ session = [d \in 1..n |-> None]
    /\ accessory = [d \in 1..n |-> NoAccessory]
    /\ turnedOn = [d \in 1..n |-> None]
    /\ appsCmd = [d \in 1..n |-> None]
    /\ outcome = [d \in 1..n |-> NoOutcome]

\* the setup of one declared device: every declaration, every document
Init == InitWith(Files, Decls, 1)

Next ==
    \/ DiscoverDevices
    \/ \E d \in Devices : Step(d)
    \/ \E d \in Devices : Hang(d)
    \/ StoreGet
    \/ StoreSave

Spec == Init /\ [][Next]_vars

\* a discovery cycle over NumDevices declared devices
\* a malformed declaration, and a valid one with credentials and a name
DiscoveryDecls ==
    {MkDevice(BadOctet, None, None, None, None, None),
     MkDevice(A5, Some(MacGood), Some("app"), Some("key"), Some("Living"), None)}

\* no document yet, and a document with an entry without data
DiscoveryFiles == {NoFile, SaveFile(<<[id |-> "S2", entry |-> EmptyEntry]>>)}

InitDiscovery == InitWith(DiscoveryFiles, DiscoveryDecls, NumDevices)

NextDiscovery ==
    \/ ConfigureAccessory
    \/ DiscoverDevices
    \/ \E d \in Devices : Step(d)
    \/ \E d \in Devices : Hang(d)

SpecDiscovery == InitDiscovery /\ [][NextDiscovery]_vars

\* a malformed declaration, and a valid one without credentials that skips
\* the application list
FairDecls ==
    {MkDevice(BadOctet, None, None, None, None, None),
     MkDevice(A5, None, None, None, None, Some(TRUE))}

InitFair == InitWith(DiscoveryFiles, FairDecls, NumDevices)

\* a callback whose awaited call has returned is resumed by the event loop
FairDiscovery ==
    InitFair /\ [][NextDiscovery]_vars /\ \A d \in 1..NumDevices : WF_vars(Step(d))

\* the store alone, over the runs of several processes
InitStorage == InitWith(Files, Decls, 0)

NextStorage ==
    \/ StoreGet
    \/ StoreSave
    \/ \E id \in Ids, ip \in ValidAddrs : \E sp \in CachedSpecs(id) : SetData(id, ip, sp)
    \/ CrashInSave
    \/ Construct

SpecStorage == InitStorage /\ [][NextStorage]_vars

(***************************************************************************)
(* Properties.                                                             *)
(***************************************************************************)
\* the specs object the address lookup of device d returned
Cached(d) == SpecsOf(accessories, cachedRef[d][1])

\* the device operations invoked up to and including getSpecs
UpToGetSpecs == <<"livenessProbe", "getSpecs">>

\* C2: deviceSetup returns a success for specs that require encryption only
\* if the declaration carries both appId and encKey and requestSessionId
\* returned a success in that run.
C2_EncryptionGate ==
    \A d \in Devices :
        (outcome[d].kind = "value" /\ Truthy(TvSpecs(d).requiresEncryption))
            => /\ tvs[d].appId # None
               /\ tvs[d].encKey # None
               /\ session[d] = Some(TRUE)

C2_Witness ==
    \E d \in Devices :
        /\ outcome[d].kind = "value"
        /\ Truthy(TvSpecs(d).requiresEncryption)
        /\ session[d] = Some(TRUE)

FailsValidation(device) ==
    \/ ~isIPv4(device.ipAddress)
    \/ device.mac # None /\ ~isValidMACAddress(device.mac[1])

\* C3: a declaration that fails validation (address no IPv4 literal, or a
\* MAC that is present and malformed) makes deviceSetup return a failure
\* with no device operation invoked for that device.
C3_ValidationFirst ==
    \A d \in Devices :
        (phase = "discovered" /\ FailsValidation(tvs[d]))
            => /\ outcome[d].kind = "error"
               /\ calls[d] = <<>>
               /\ pc[d] \in {"returned", "logged"}

C3_Witness ==
    \E d \in Devices :
        /\ isIPv4(tvs[d].ipAddress)
        /\ tvs[d].mac = Some(MacNotHex)
        /\ CredentialsSupplied(tvs[d])
        /\ pc[d] = "logged"

\* no entry of mapping m stores specs for address ip
NoSpecsFor(m, ip) ==
    \A i \in 1..Len(m) : m[i].entry.data = None \/ m[i].entry.data[1].ipAddress # ip

\* C4: if the probe reports the device unreachable and no cache entry stores
\* specs for its address, deviceSetup returns a failure naming the address,
\* calls neither getSpecs nor any later operation, and nothing is published.
C4_UnreachableNoCache ==
    \A d \in Devices :
        (reachable[d] = Some(FALSE) /\ NoSpecsFor(accessories, tvs[d].ipAddress))
            => /\ outcome[d].kind = "error"
               /\ outcome[d].msg.ip = Some(tvs[d].ipAddress)
               /\ calls[d] = <<"livenessProbe">>
               /\ pc[d] \in {"returned", "logged"}

C6_NoOfflineEncrypted ==
    \A d \in Devices :
        (/\ live[d] = Some(EmptySpecs)
         /\ cachedRef[d] # None
         /\ Truthy(Cached(d).requiresEncryption))
            => /\ outcome[d].kind = "error"
               /\ outcome[d].msg.text = "no offline initialization"
               /\ calls[d] = UpToGetSpecs

C6_Witness ==
    \E d \in Devices :
        /\ live[d] = Some(EmptySpecs)
        /\ cachedRef[d] # None
        /\ Truthy(Cached(d).requiresEncryption)
        /\ tvs[d].appId # None /\ tvs[d].encKey # None
        /\ pc[d] = "logged"

\* C7: when getSpecs returns specs that are not empty, tv.specs is that
\* object and not a cached one: the gate, the accessory and the handle use
\* its serial number and requiresEncryption, and its name unless the
\* declaration overrides it; a cached specs object is tv.specs only when the
\* live fetch was empty.
C7_LivePrecedence ==
    \A d \in Devices :
        /\ (live[d] # None /\ ~isEmptySpecs(live[d][1]))
            => /\ tvRef[d] = None
               /\ tvOwn[d].serialNumber = live[d][1].serialNumber
               /\ tvOwn[d].requiresEncryption = live[d][1].requiresEncryption
               /\ tvOwn[d].friendlyName \in {live[d][1].friendlyName, tvs[d].friendlyName}
               /\ (Truthy(live[d][1].requiresEncryption) /\ outcome[d].kind = "value")
                    => session[d] = Some(TRUE)
               /\ (~Truthy(live[d][1].requiresEncryption)) => session[d] = None
               /\ outcome[d].kind = "value"
                    => /\ outcome[d].handle.accessory.serialNumber = live[d][1].serialNumber
                       /\ outcome[d].handle.accessory.displayName = tvOwn[d].friendlyName
        /\ tvRef[d] # None => live[d] = Some(EmptySpecs)

C7_Witness ==
    \E d \in Devices :
        /\ live[d] # None /\ ~isEmptySpecs(live[d][1])
        /\ cachedRef[d] # None
        /\ Cached(d).serialNumber # live[d][1].serialNumber
        /\ Cached(d).requiresEncryption # live[d][1].requiresEncryption
        /\ outcome[d].kind = "value"

\* C8: when the resolved specs require encryption and the declaration lacks
\* appId or encKey, deviceSetup fails with neither deriveSessionKey nor
\* requestSessionId nor any later device operation invoked.
C8_NoCredentialsNoHandshake ==
    \A d \in Devices :
        (/\ live[d] # None
         /\ Truthy(TvSpecs(d).requiresEncryption)
         /\ (tvs[d].appId = None \/ tvs[d].encKey = None))
            => /\ outcome[d].kind = "error"
               /\ outcome[d].msg.text = "no valid credentials"
               /\ calls[d] = UpToGetSpecs

C8_Witness ==
    \E d \in Devices :
        /\ live[d] # None
        /\ Truthy(TvSpecs(d).requiresEncryption)
        /\ tvs[d].appId # None /\ tvs[d].encKey = None
        /\ pc[d] = "logged"

\* C9: get(id) never returns an absent value: the entry it returns is the
\* one stored under id in the mapping, for an unknown id a new empty entry
\* added to the mapping; a call of get leaves the document as it is, and
\* the document changes in no step but a call of save.
C9_GetMaterializes ==
    [][/\ lastCall'.op = "get"
          => /\ lastCall'.result # None
             /\ HasKey(accessories', lastCall'.id)
             /\ lastCall'.result = Some(EntryOf(accessories', lastCall'.id))
             /\ HasKey(accessories, lastCall'.id) => accessories' = accessories
             /\ ~HasKey(accessories, lastCall'.id)
                  => accessories' = Append(accessories,
                                           [id |-> lastCall'.id, entry |-> EmptyEntry])
             /\ disk' = disk
       /\ disk' # disk => lastCall'.op = "save"]_vars

C9_Witness ==
    /\ lastCall.op = "get"
    /\ lastCall.result = Some(EmptyEntry)
    /\ saved # None
    /\ ~HasKey(saved[1], lastCall.id)
    /\ disk = SaveFile(saved[1])
    /\ HasKey(accessories, lastCall.id)

\* C10: a store constructed after a save holds the mapping as it was at
\* that save: the same keys in the same order with the same contents, and
\* nothing of what was changed in memory after it.
C10_RoundTrip ==
    (lastCall.op = "construct" /\ saved # None) => accessories = saved[1]

C10_Witness ==
    /\ lastCall.op = "construct"
    /\ saved # None
    /\ Len(saved[1]) = Cardinality(Ids)
    /\ \E i, j \in 1..Len(saved[1]) :
          saved[1][i].entry.data = None /\ saved[1][j].entry.data # None
    /\ accessories = saved[1]

\* C1: in a discovery cycle, a device whose deviceSetup returned a success is
\* eventually published, whatever the pipelines of the other devices do:
\* be rejected at any stage, or hang for ever in a network call.
C1_Independent ==
    \A d \in 1..NumDevices :
        (pc[d] = "returned" /\ outcome[d].kind = "value") ~> (pc[d] = "published")

C1_Witness ==
    \E d, e \in Devices :
        /\ e < d
        /\ pc[e] = "hung"
        /\ pc[d] = "published"
        /\ \E i \in 1..Len(host) : host[i] = [op |-> "publish", what |-> d]

\* C11: a store constructed over a document that is missing or does not
\* parse, a document torn by a crash in the middle of a save included, holds
\* the empty mapping: no serial number has an entry and the lookup by address
\* finds no specs, for every address.
C11_LoadNeverFails ==
    (lastCall.op = "construct" /\ readJsonSync(disk) = None)
        => /\ accessories = <<>>
           /\ \A id \in Ids : NoEntryFor(accessories, Some(id))
           /\ \A ip \in ValidAddrs :
                 knownWorking(accessories, ip) = [threw |-> FALSE, ref |-> None]

C11_Witness ==
    /\ lastCall.op = "construct"
    /\ disk.state = "corrupt"
    /\ Len(disk.doc) >= 1
    /\ accessories = <<>>

\* the device operations invoked from the first-time check on
FirstTimeCalls(d) ==
    SelectSeq(calls[d], LAMBDA op : op \in {"isTurnedOn", "getApps"})

\* the declaration of device d disables the application list
AppsDisabled(d) == tvs[d].disabledAppSupport = Some(TRUE)

\* C12: a success for a serial number under which the cache has no entry
\* means isTurnedOn returned true and, unless the declaration disables the
\* application list, getApps returned a success whose list is the one the
\* handle carries; with the list disabled getApps is not called and the
\* handle carries the empty list.  isTurnedOn returning false and getApps
\* failing each end in a failure.
C12_FirstTimeBootstrap ==
    \A d \in Devices :
        /\ (/\ outcome[d].kind = "value"
            /\ NoEntryFor(accessories, outcome[d].handle.accessory.serialNumber))
              => /\ turnedOn[d] = Some(TRUE)
                 /\ ~AppsDisabled(d)
                      => /\ FirstTimeCalls(d) = <<"isTurnedOn", "getApps">>
                         /\ appsCmd[d] # None
                         /\ appsCmd[d][1].ok
                         /\ outcome[d].handle.apps = appsCmd[d][1].value
                 /\ AppsDisabled(d)
                      => /\ FirstTimeCalls(d) = <<"isTurnedOn">>
                         /\ appsCmd[d] = None
                         /\ outcome[d].handle.apps = <<>>
        /\ turnedOn[d] = Some(FALSE) => outcome[d].kind = "error"
        /\ (appsCmd[d] # None /\ ~appsCmd[d][1].ok) => outcome[d].kind = "error"

C12_Witness ==
    \E d \in Devices :
        /\ outcome[d].kind = "value"
        /\ outcome[d].handle.accessory.serialNumber # None
        /\ NoEntryFor(accessories, outcome[d].handle.accessory.serialNumber)
        /\ tvs[d].mac = None
        /\ reachable[d] = Some(TRUE)
        /\ session[d] = None
        /\ outcome[d].handle.apps = <<"Netflix", "YouTube">>
        /\ pc[d] = "published"

\* C13: once the discovery cycle has started, every accessory the host
\* restored through configureAccessory has been unregistered, and every
\* unregistration precedes every publication among the calls on the host.
C13_UnregisterFirst ==
    phase = "discovered"
        => /\ \A i \in 1..Len(restored) :
                 \E j \in 1..Len(host) : host[j] = [op |-> "unregister", what |-> restored[i]]
           /\ \A j, k \in 1..Len(host) :
                 (host[j].op = "unregister" /\ host[k].op = "publish") => j < k

C13_Witness ==
    /\ phase = "discovered"
    /\ Len(restored) >= 2
    /\ \E k \in 1..Len(host) : host[k].op = "publish"
    /\ \A i \in 1..Len(restored) : host[i] = [op |-> "unregister", what |-> restored[i]]

\* C14: every failure deviceSetup returns carries a message that names the
\* address of the declaration.
C14_FailureNamesAddress ==
    \A d \in Devices :
        outcome[d].kind = "error" => outcome[d].msg.ip = Some(tvs[d].ipAddress)

\* C15: no pipeline of a discovery cycle ends by an exception: deviceSetup
\* never rejects, and no callback ends without a publication or a logged
\* failure.
C15_NoUnloggedException ==
    \A d \in Devices : outcome[d].kind # "thrown" /\ pc[d] # "rejected"

\* deviceSetup was ended by an exception before its call of getSpecs, that
\* is by knownWorking
LookupThrew(d) == outcome[d].kind = "thrown" /\ calls[d] = <<"livenessProbe">>

\* C16: once the lookup by address has run for a device it has not thrown;
\* it returned the specs of an entry that stores the address of the
\* declaration, or the empty specs when no entry stores that address.
C16_LookupTotal ==
    \A d \in Devices :
        reachable[d] # None
            => /\ ~LookupThrew(d)
               /\ cachedRef[d] # None
                    => /\ HasKey(accessories, cachedRef[d][1])
                       /\ EntryOf(accessories, cachedRef[d][1]).data # None
                       /\ EntryOf(accessories, cachedRef[d][1]).data[1].ipAddress
                             = tvs[d].ipAddress
               /\ cachedRef[d] = None => NoSpecsFor(accessories, tvs[d].ipAddress)

\* C17: no step of a run of deviceSetup changes the in-memory mapping or
\* the document: a step that moves the pipeline of a device leaves both as
\* they were.
C17_CacheUnchanged ==
    [][(\E d \in Devices : pc'[d] # pc[d] /\ phase = "discovered")
          => (accessories' = accessories /\ disk' = disk)]_vars

\* the number of publications of the accessory of device d
Published(d) == Cardinality({k \in 1..Len(host) : host[k] = [op |-> "publish", what |-> d]})

\* C18: an accessory is published for a declared device only when its
\* deviceSetup has returned a success, and at most once; a device whose
\* deviceSetup returned a failure is never published, and its failure is
\* logged when its callback has resumed.
C18_PublishOnSuccess ==
    \A d \in Devices :
        /\ Published(d) <= 1
        /\ Published(d) = 1 <=> pc[d] = "published"
        /\ pc[d] = "published" => outcome[d].kind = "value"
        /\ outcome[d].kind = "error" => (Published(d) = 0 /\ pc[d] \in {"returned", "logged"})
        /\ pc[d] = "logged" => outcome[d].kind = "error"

C18_Witness ==
    \E d, e \in Devices :
        /\ pc[d] = "published"
        /\ Published(d) = 1
        /\ pc[e] = "logged"
        /\ Published(e) = 0

\* C19: every success of deviceSetup is for specs that are not empty and
\* have a serial number, which the accessory of the handle carries.
C19_SuccessHasSpecs ==
    \A d \in Devices :
        outcome[d].kind = "value"
            => /\ ~isEmptySpecs(TvSpecs(d))
               /\ TvSpecs(d).serialNumber # None
               /\ outcome[d].handle.accessory.serialNumber # None

\* the step in which the run of device d builds its accessory and makes the
\* first-time check, with the mapping holding an entry under the serial
\* number of the resolved specs
KnownAtCheck(d) ==
    /\ accessory'[d] # accessory[d]
    /\ accessory'[d].serialNumber # None
    /\ HasKey(accessories, accessory'[d].serialNumber[1])

Ended == {"returned", "published", "logged", "rejected"}

\* C20: a run that reaches the first-time check with an entry in the cache
\* under the resolved serial number returns in that step a success with the
\* empty application list, having invoked neither isTurnedOn nor getApps;
\* a run that has returned invokes no device operation any more.
C20_KnownSkipsBootstrap ==
    [][\A d \in Devices :
          /\ KnownAtCheck(d)
               => /\ pc'[d] = "returned"
                  /\ outcome'[d].kind = "value"
                  /\ outcome'[d].handle.apps = <<>>
                  /\ outcome'[d].handle.accessory = accessory'[d]
                  /\ calls'[d] = calls[d]
                  /\ FirstTimeCalls(d) = <<>>
                  /\ turnedOn'[d] = None /\ appsCmd'[d] = None
          /\ pc[d] \in Ended => (calls'[d] = calls[d] /\ pc'[d] \in Ended)]_vars

C20_Witness ==
    \E d \in Devices :
        /\ outcome[d].kind = "value"
        /\ live[d] # None /\ ~isEmptySpecs(live[d][1])
        /\ HasKey(accessories, live[d][1].serialNumber[1])
        /\ saved = None /\ lastCall = NoCall
        /\ tvs[d].disabledAppSupport = None
        /\ FirstTimeCalls(d) = <<>>
        /\ outcome[d].handle.apps = <<>>
        /\ pc[d] = "published"
====
